---- MODULE Spec2Model ----
(***************************************************************************)
(* Verification session state machine of the guest identity-verification   *)
(* backend: the `handler` of the verify endpoint (actions start,           *)
(* log_consent, update_guest, upload_document, verify_face), the           *)
(* demo_sessions row it reads and writes, the booking_email_index lookup,  *)
(* the S3 object store and the detached Textract extraction task.          *)
(*                                                                         *)
(* One session token is modelled.  A handler invocation is split at the    *)
(* awaits between its read of the session row and its write of it, so that *)
(* two invocations can interleave exactly where the code lets them.        *)
(*                                                                         *)
(* Representation of JavaScript values:                                    *)
(*   - a request/column number is a tagged record, its value in tenths     *)
(*     (so that Math.trunc does something); null and a non-numeric value   *)
(*     are other tags;                                                     *)
(*   - a text is a sequence of one-character strings; the code only tests  *)
(*     texts for truthiness, so null and "" are both the empty sequence;   *)
(*   - a nullable boolean column is one of "null", "true", "false";        *)
(*   - scores are integers in thousandths, NoScore when the column is null.*)
(***************************************************************************)
EXTENDS Integers, Sequences, FiniteSets, TLC

\* ------------------------------------------------------------------ bounds
NumProcs == 2
MaxPasses == 3
MaxUploads == 2

Procs == 1..NumProcs

\* ------------------------------------------------------- program constants
MinGuests == 1
MaxGuests == 10
MinImageBytes == 1000
PassSimilarity == 650
BrightnessFloor == 40

\* ------------------------------------------------------------- JS values
NULL == "null"
NoText == << >>
NoScore == 0 - 1

\* CompareFaces answered no match: FaceMatches is empty
NoMatch == 0 - 1

Null == [t |-> "null", v |-> 0]
NaN == [t |-> "nan", v |-> 0]
Num(tenths) == [t |-> "num", v |-> tenths]
Whole(n) == Num(10 * n)

Bool3(b) == IF b THEN "true" ELSE "false"

Min(a, b) == IF a < b THEN a ELSE b
Max(a, b) == IF a > b THEN a ELSE b

\* Math.trunc of a number given in tenths
Trunc(tenths) == IF tenths >= 0 THEN tenths \div 10 ELSE 0 - ((0 - tenths) \div 10)

\* toIntOrNull: null/undefined and non-finite values give null, every other
\* number is truncated toward zero
toIntOrNull(v) == IF v.t = "num" THEN Whole(Trunc(v.v)) ELSE Null

\* mutant of clampInt: only the upper limit is applied
clampIntAbove(n, min, max) ==
  LET x == toIntOrNull(n)
  IN  IF x = Null THEN min ELSE Min(x.v \div 10, max)

\* clampInt(n, min, max): an integer
clampInt(n, min, max) ==
  LET x == toIntOrNull(n)
  IN  IF x = Null THEN min ELSE Min(Max(x.v \div 10, min), max)

\* ---------------------------------------------------------------- texts
Lower(c) == CASE c = "A" -> "a" [] c = "L" -> "l" [] c = "R" -> "r"
              [] c = "S" -> "s" [] c = "X" -> "x" [] c = "M" -> "m"
              [] OTHER -> c
Upper(c) == CASE c = "a" -> "A" [] c = "l" -> "L" [] c = "r" -> "R"
              [] c = "s" -> "S" [] c = "x" -> "X" [] c = "m" -> "M"
              [] OTHER -> c
IsSpace(c) == c = " "
IsAlnum(c) == c \in {"a", "l", "r", "s", "x", "m", "A", "L", "R", "S", "X", "M", "1", "2"}

LowerAll(s) == [i \in 1..Len(s) |-> Lower(s[i])]
UpperAll(s) == [i \in 1..Len(s) |-> Upper(s[i])]

RECURSIVE TrimLeft(_)
TrimLeft(s) == IF s # << >> /\ IsSpace(Head(s)) THEN TrimLeft(Tail(s)) ELSE s

RECURSIVE TrimRight(_)
TrimRight(s) == IF s # << >> /\ IsSpace(s[Len(s)]) THEN TrimRight(SubSeq(s, 1, Len(s) - 1)) ELSE s

Trim(s) == TrimRight(TrimLeft(s))

\* .replace(/\s+/g, " ")
RECURSIVE CollapseSpaces(_)
CollapseSpaces(s) ==
  IF s = << >> THEN << >>
  ELSE IF IsSpace(Head(s)) /\ Tail(s) # << >> /\ IsSpace(Head(Tail(s)))
       THEN CollapseSpaces(Tail(s))
       ELSE <<Head(s)>> \o CollapseSpaces(Tail(s))

\* .replace(/[^\p{L}\p{N}\s]/gu, "")
StripPunct(s) == SelectSeq(s, LAMBDA c : IsAlnum(c) \/ IsSpace(c))

\* .replace(/[\s-]/g, "")
StripSpaceHyphen(s) == SelectSeq(s, LAMBDA c : ~IsSpace(c) /\ c # "-")

normalizeGuestName(name) == StripPunct(CollapseSpaces(Trim(LowerAll(name))))

normalizeReservationNumber(v) == StripSpaceHyphen(Trim(UpperAll(v)))

\* `a || b` on texts
OrText(a, b) == IF a # NoText THEN a ELSE b

\* ------------------------------------------------------------ the session
Steps == {"welcome", "document", "selfie", "results"}
Statuses == {"started", "consent_logged", "guest_info_saved", "document_uploaded",
             "partial_verified", "verified", "failed"}

documentKey == <<"document">>
selfieKeyOf(i) == <<"selfie", i>>
NoUrl == << >>

NoInfo == [textract_ok |-> "none", textract_error |-> "none", upload |-> 0]
PendingInfo(u) == [textract_ok |-> NULL, textract_error |-> "none", upload |-> u]

NoSession == [exists |-> FALSE]

\* the row inserted by action start; the other columns take their defaults
NewSession ==
  [exists |-> TRUE,
   status |-> "started",
   current_step |-> "welcome",
   consent_given |-> NULL,
   consent_time |-> NoText,
   consent_locale |-> NoText,
   guest_name |-> NoText,
   room_number |-> NoText,
   document_url |-> NoUrl,
   selfie_url |-> NoUrl,
   is_verified |-> NULL,
   verification_score |-> NoScore,
   liveness_score |-> NoScore,
   face_match_score |-> NoScore,
   extracted_info |-> NoInfo,
   expected_guest_count |-> 1,
   verified_guest_count |-> 0,
   requires_additional_guest |-> 1 > 0]

\* supabase .update(payload).eq("session_token", token): changes the named
\* columns of the row when the row exists, and nothing otherwise
UpdateRow(row, payload) ==
  IF row.exists
  THEN [f \in DOMAIN row |-> IF f \in DOMAIN payload THEN payload[f] ELSE row[f]]
  ELSE row

\* ------------------------------------------------------------- call state
Idle ==
  [pc |-> "idle", guest_name |-> NoText, bookingValue |-> NoText,
   expectedToSet |-> 0, verified |-> 0,
   expected |-> 0, verifiedBefore |-> 0, selfieIndex |-> 0,
   document_url |-> NoUrl, size |-> 0,
   eyesOpen |-> FALSE, brightness |-> 0, bestSimilarity |-> 0,
   isLive |-> FALSE, livenessScore |-> 0, similarity |-> 0]

NoResp == [op |-> "none", code |-> 0, is_verified |-> FALSE, extracted_text |-> "none"]
Resp(op, code) == [op |-> op, code |-> code, is_verified |-> FALSE, extracted_text |-> "none"]

\* mutant of serverError: the exception is swallowed and the request succeeds
serverErrorSwallowed(op) == Resp(op, 200)

\* the handler's catch: any exception thrown inside an action answers 500
serverError(op) == Resp(op, 500)

\* mutant of tooSmall: no minimum size
tooSmallNever(size) == FALSE

\* imageBuffer.length < 1000, selfieBuffer.length < 1000
tooSmall(size) == size < MinImageBytes

VARIABLES
  session,      \* the demo_sessions row of the token, or NoSession
  s3,           \* the objects stored for the token: key -> size of the body
  calls,        \* per invocation slot: position in the handler and its locals
  tasks,        \* detached extraction tasks, by upload number
  uploads,      \* number of accepted upload_document calls
  last,         \* the response of the invocation that finished last
  ledger,       \* what the last completed verify_face added to demo_api_costs and demo_stats
  workload,     \* what the environment does in this specification (never changes)
  passes,       \* history: passing verify_face invocations completed
  expStable,    \* history: expected_guest_count unchanged since the first pass
  everVerified, \* history: status has been verified at some time
  arg,          \* the argument of a helper function called on its own
  ret           \* what the helper function returned for arg

vars == <<session, s3, calls, tasks, uploads, last, ledger, workload, passes, expStable, everVerified,
          arg, ret>>

hist == <<passes, expStable, everVerified>>

NoTasks == [u \in 1..MaxUploads |-> "off"]

\* no helper function is called on its own
NoArg == [fn |-> "none"]
NotCalled == [called |-> FALSE]

\* the two cost rows inserted and the increment_demo_stats call made
NoLedger == [costs |-> FALSE, stats |-> FALSE]

\* the Object Store: PutObject creates or replaces the object of a key
NoObjects == [k \in {} |-> 0]
PutObject(store, key, body) ==
  [k \in DOMAIN store \cup {key} |-> IF k = key THEN body ELSE store[k]]

\* ------------------------------------------------------------ workloads
\* A workload fixes the sets the inputs of the requests and the answers of
\* the external services are drawn from, whether invocations overlap
\* (serial), which operations' responses are recorded in `last` (watch),
\* and whether the client uploads a document again after an accepted upload
\* (reuploads).
Ops == {"start", "log_consent", "update_guest", "upload_document", "verify_face"}

BaseWorkload ==
  [serial |-> TRUE,
   watch |-> {},
   consent |-> {TRUE},
   names |-> { <<" ", "A", "l", ".">> },
   refs |-> { <<"s", "-", "1">>, <<"X">> },
   rooms |-> { NoText },
   overrides |-> { Null },
   adults |-> { Whole(2) },
   uploadGuests |-> { <<NoText, NoText>> },
   sizes |-> { MinImageBytes },
   eyes |-> { TRUE },
   brightness |-> { BrightnessFloor + 1 },
   confidences |-> { 99 },
   similarities |-> { 64, 65 },
   dbOk |-> { TRUE },
   awsOk |-> { TRUE },
   sideOk |-> { TRUE },
   outcomes |-> { "extracted" },
   reuploads |-> FALSE]

\* the quorum counters: every adults value and override, failing selects
QuorumWorkload ==
  [BaseWorkload EXCEPT
     !.adults = { Null, Whole(0), Whole(2), Whole(11) },
     !.overrides = { Null, Num(25) },
     !.dbOk = BOOLEAN]

\* the guest identity: names and references in and out of the directory,
\* and consent given or refused
GuestWorkload ==
  [BaseWorkload EXCEPT
     !.watch = {"update_guest"},
     !.consent = BOOLEAN,
     !.names = { <<" ", "A", "l", ".">>, <<"m">>, NoText },
     !.refs = { <<"s", "-", "1">>, <<"X">>, NoText },
     !.rooms = { NoText, <<"R", "1">> },
     !.uploadGuests = { <<NoText, NoText>>, <<(<<"m">>), (<<"X">>)>> },
     !.similarities = { 65 }]

\* the decision of verify_face, with its response
DecisionWorkload ==
  [BaseWorkload EXCEPT
     !.watch = {"verify_face"},
     !.eyes = BOOLEAN,
     !.brightness = { BrightnessFloor, BrightnessFloor + 1 },
     !.similarities = { NoMatch, 64, 65, 70 }]

\* overlapping invocations
ConcWorkload == [BaseWorkload EXCEPT !.serial = FALSE]

\* the extraction: the extractor answers, throws or is overtaken by the
\* timer, and the repository may refuse a write; selfies are taken with
\* closed eyes
ExtractWorkload ==
  [BaseWorkload EXCEPT
     !.watch = {"upload_document"},
     !.eyes = { FALSE },
     !.similarities = { 65 },
     !.dbOk = BOOLEAN,
     !.outcomes = { "extracted", "extractor_error", "timeout" },
     !.reuploads = TRUE]

\* the race of the extractor against the timer, between passing selfies and
\* guest updates: every outcome, repeated uploads, a repository that works
RaceWorkload ==
  [BaseWorkload EXCEPT
     !.similarities = { 65 },
     !.outcomes = { "extracted", "extractor_error", "timeout" },
     !.reuploads = TRUE]

\* requests that arrive before start created the row of their token: every
\* response is kept
UnknownTokenWorkload ==
  [BaseWorkload EXCEPT
     !.watch = {"log_consent", "update_guest", "upload_document", "verify_face"},
     !.similarities = { 65 }]

\* every kind of adults value in the Reservation Directory, no override
AdultsWorkload ==
  [BaseWorkload EXCEPT
     !.adults = { Null, NaN, Whole(0 - 3), Whole(0), Num(25), Whole(3), Whole(11) },
     !.similarities = { 65 }]

\* a reservation of three adults, and every kind of override
OverrideWorkload ==
  [BaseWorkload EXCEPT
     !.adults = { Whole(3) },
     !.overrides = { Null, NaN, Whole(0 - 3), Whole(0), Num(25), Whole(11) },
     !.similarities = { 65 }]

\* requests with missing, short and valid images, and failing calls to the
\* Object Store and the Face Analyzer
FaultWorkload ==
  [BaseWorkload EXCEPT
     !.watch = {"upload_document", "verify_face"},
     !.sizes = { 0, MinImageBytes - 1, MinImageBytes },
     !.similarities = { 65 },
     !.awsOk = BOOLEAN,
     !.sideOk = BOOLEAN]

InitWith(w) ==
  /\ session = NoSession
  /\ s3 = NoObjects
  /\ calls = [p \in Procs |-> Idle]
  /\ tasks = NoTasks
  /\ uploads = 0
  /\ last = NoResp
  /\ ledger = NoLedger
  /\ workload = w
  /\ passes = 0
  /\ expStable = TRUE
  /\ everVerified = FALSE
  /\ arg = NoArg
  /\ ret = NotCalled

Init == InitWith(QuorumWorkload)

InitGuest == InitWith(GuestWorkload)

InitDecision == InitWith(DecisionWorkload)

InitConc == InitWith(ConcWorkload)

InitExtract == InitWith(ExtractWorkload)

InitRace == InitWith(RaceWorkload)

InitFaults == InitWith(FaultWorkload)

InitAdults == InitWith(AdultsWorkload)

InitOverride == InitWith(OverrideWorkload)

\* -------------------------------------------------- Reservation Directory
\* Rows of booking_email_index as the inbound-mail webhook writes them:
\* normalised name, normalised confirmation number and source reservation
\* id, and the adults column.  Several mails for one booking give several
\* rows, which differ in adults.
booking_email_index ==
  { [guest_name_norm |-> <<"a", "l">>, confirmation_number_norm |-> <<"R", "1">>,
     source_reservation_id_norm |-> <<"S", "1">>, adults |-> a] : a \in workload.adults }

\* mutant of Matches: the query filters on the reservation number only
MatchesByReference(guestNameNorm, resNorm) ==
  { r \in booking_email_index :
      \/ r.confirmation_number_norm = resNorm
      \/ r.source_reservation_id_norm = resNorm }

\* the rows the update_guest query selects (before .limit(1))
Matches(guestNameNorm, resNorm) ==
  { r \in booking_email_index :
      /\ r.guest_name_norm = guestNameNorm
      /\ \/ r.confirmation_number_norm = resNorm
         \/ r.source_reservation_id_norm = resNorm }

\* an invocation may begin in slot p: the first free slot, and when
\* invocations run one at a time, only when none is in flight
CanBegin(p) ==
  /\ calls[p].pc = "idle"
  /\ \A q \in Procs : q < p => calls[q].pc # "idle"
  /\ workload.serial => \A q \in Procs : calls[q].pc = "idle"

Finish(p, resp) ==
  /\ calls' = [calls EXCEPT ![p] = Idle]
  /\ last' = IF resp.op \in workload.watch THEN resp ELSE last

now == <<"2">>
defaultLocale == <<"a">>

\* ---------------------------------------------------------- action start
\* The fresh random token has no row yet, and no request has used it: a
\* token that requests were made on before has no start (it stays unknown).
\* The insert can fail.
Start(p) ==
  /\ CanBegin(p)
  /\ ~session.exists
  /\ s3 = NoObjects /\ uploads = 0
  /\ \E insertOk \in workload.dbOk :
       IF insertOk
       THEN /\ session' = NewSession
            /\ Finish(p, Resp("start", 200))
       ELSE /\ session' = session
            /\ Finish(p, Resp("start", 500))
  /\ UNCHANGED <<s3, tasks, uploads, ledger, workload, arg, ret, hist>>

\* ---------------------------------------------------- action log_consent
LogConsent(p) ==
  /\ CanBegin(p)
  /\ \E consent_given \in workload.consent, consent_time \in {NoText},
        consent_locale \in {NoText}, updateOk \in workload.dbOk :
       IF ~session.exists
       THEN /\ session' = session
            /\ Finish(p, Resp("log_consent", 404))
       ELSE IF ~updateOk
       THEN /\ session' = session
            /\ Finish(p, Resp("log_consent", 500))
       ELSE /\ session' = UpdateRow(session,
                 [consent_given |-> Bool3(consent_given),
                  consent_time |-> OrText(consent_time, now),
                  consent_locale |-> OrText(consent_locale, defaultLocale),
                  status |-> "consent_logged",
                  current_step |-> "welcome"])
            /\ Finish(p, Resp("log_consent", 200))
  /\ UNCHANGED <<s3, tasks, uploads, ledger, workload, arg, ret, hist>>

\* --------------------------------------------------- action update_guest
\* Number.isFinite(Number(bookingRow.adults)) ? Number(bookingRow.adults) : 1
\* (Number(null) is 0)
adultsFromEmail(adults) ==
  IF adults.t = "num" THEN adults ELSE IF adults.t = "null" THEN Whole(0) ELSE Whole(1)

\* mutant of expectedToSetOf: the override is not looked at
expectedToSetFromEmail(adults, expected_guest_count) ==
  clampInt(adultsFromEmail(adults), MinGuests, MaxGuests)

expectedToSetOf(adults, expected_guest_count) ==
  LET expectedFromEmail == clampInt(adultsFromEmail(adults), MinGuests, MaxGuests)
      expectedOverride == toIntOrNull(expected_guest_count)
  IN  IF expectedOverride = Null THEN expectedFromEmail
      ELSE clampInt(expectedOverride, MinGuests, MaxGuests)

\* what the handler takes as the session's verified count: the stored count
\* clamped, or 0 when the select failed or found no row
verifiedRead(row, selectOk) ==
  IF selectOk /\ row.exists THEN clampInt(Whole(row.verified_guest_count), 0, MaxGuests) ELSE 0

\* validation, directory lookup and the read of verified_guest_count;
\* adults is the adults column of the row the lookup returns first
GuestRequest(p, guest_name, booking_ref, room_number, expected_guest_count, lookupOk, selectOk, adults) ==
  /\ LET bookingValue == OrText(booking_ref, room_number)
         matches == Matches(normalizeGuestName(guest_name),
                            normalizeReservationNumber(bookingValue))
     IN  IF guest_name = NoText \/ bookingValue = NoText
         THEN Finish(p, Resp("update_guest", 400))
         ELSE IF ~lookupOk
         THEN Finish(p, Resp("update_guest", 500))
         ELSE IF matches = {}
         THEN Finish(p, Resp("update_guest", 403))
         ELSE /\ \E bookingRow \in matches : bookingRow.adults = adults
              /\ calls' = [calls EXCEPT ![p] =
                   [Idle EXCEPT !.pc = "ug_write",
                                !.guest_name = guest_name,
                                !.bookingValue = bookingValue,
                                !.expectedToSet =
                                   expectedToSetOf(adults, expected_guest_count),
                                !.verified = verifiedRead(session, selectOk)]]
              /\ last' = last
  /\ UNCHANGED <<session, s3, tasks, uploads, ledger, workload, arg, ret, hist>>

UGBegin(p) ==
  /\ CanBegin(p)
  /\ \E guest_name \in workload.names, booking_ref \in workload.refs,
        room_number \in workload.rooms, expected_guest_count \in workload.overrides,
        lookupOk \in workload.dbOk, selectOk \in workload.dbOk, adults \in workload.adults :
       GuestRequest(p, guest_name, booking_ref, room_number, expected_guest_count,
                    lookupOk, selectOk, adults)

updatePayload(c) ==
  [guest_name |-> c.guest_name,
   room_number |-> c.bookingValue,
   status |-> "guest_info_saved",
   current_step |-> "document",
   expected_guest_count |-> c.expectedToSet,
   requires_additional_guest |-> c.verified < c.expectedToSet]

\* the update of the row and the response
GuestWrite(p, updateOk) ==
  /\ calls[p].pc = "ug_write"
  /\ IF updateOk
     THEN /\ session' = UpdateRow(session, updatePayload(calls[p]))
          /\ expStable' = (expStable /\ ~(/\ session.exists
                                          /\ passes > 0
                                          /\ calls[p].expectedToSet # session.expected_guest_count))
          /\ Finish(p, Resp("update_guest", 200))
     ELSE /\ UNCHANGED <<session, expStable>>
          /\ Finish(p, Resp("update_guest", 500))
  /\ UNCHANGED <<s3, tasks, uploads, ledger, workload, arg, ret, passes, everVerified>>

UGWrite(p) == \E updateOk \in workload.dbOk : GuestWrite(p, updateOk)

\* ------------------------------------------------ action upload_document
\* The S3 put throws on failure (caught by the handler's catch: 500); the
\* row update reports its error.  The extraction task is dispatched after a
\* successful update and is not awaited.

\* mutant of uploadAccepted: the response reports the extraction as done
uploadAcceptedExtracted ==
  [Resp("upload_document", 200) EXCEPT !.extracted_text = "extracted"]

\* { success: true, extracted_text: "Textract pending (async)", ... }
uploadAccepted ==
  [Resp("upload_document", 200) EXCEPT !.extracted_text = "pending"]

UploadRequest(p, size, guest, putOk, updateOk) ==
  /\ IF size = 0 \/ tooSmall(size)
     THEN /\ UNCHANGED <<session, s3, tasks, uploads>>
          /\ Finish(p, Resp("upload_document", 400))
     ELSE IF ~putOk
     THEN /\ UNCHANGED <<session, s3, tasks, uploads>>
          /\ Finish(p, serverError("upload_document"))
     ELSE IF ~updateOk
     THEN /\ s3' = PutObject(s3, documentKey, size)
          /\ UNCHANGED <<session, tasks, uploads>>
          /\ Finish(p, Resp("upload_document", 500))
     ELSE /\ uploads < MaxUploads
          /\ uploads = 0 \/ workload.reuploads
          /\ s3' = PutObject(s3, documentKey, size)
          /\ uploads' = uploads + 1
          /\ session' = UpdateRow(session,
               [status |-> "document_uploaded",
                current_step |-> "selfie",
                document_url |-> documentKey,
                guest_name |-> guest[1],
                room_number |-> guest[2],
                extracted_info |-> PendingInfo(uploads + 1)])
          /\ tasks' = [tasks EXCEPT ![uploads + 1] = "racing"]
          /\ Finish(p, uploadAccepted)
  /\ UNCHANGED <<ledger, workload, arg, ret, hist>>

UploadDocument(p) ==
  /\ CanBegin(p)
  /\ \E size \in workload.sizes, guest \in workload.uploadGuests,
        putOk \in workload.awsOk, updateOk \in workload.dbOk :
       UploadRequest(p, size, guest, putOk, updateOk)

\* what the task stores for the result of the race: textract_ok and, for a
\* failure, the message of the error that settled it (the extractor's or
\* "Textract timeout after 15000ms")
extractedInfoOf(outcome, u) ==
  [textract_ok |-> Bool3(outcome = "extracted"),
   textract_error |-> IF outcome = "extracted" THEN "none" ELSE outcome,
   upload |-> u]

\* mutant of writeBackPayload: the write-back also restores the step of the upload
writeBackPayloadWithStep(outcome, u) ==
  [extracted_info |-> extractedInfoOf(outcome, u),
   status |-> "document_uploaded",
   current_step |-> "selfie"]

\* the columns the .then of the task updates: extracted_info with
\* textract_ok true or false (and updated_at)
writeBackPayload(outcome, u) ==
  [extracted_info |-> extractedInfoOf(outcome, u)]

\* The detached task: the race in runTextractAnalyzeIdWithTimeout settles
\* with the first of the extractor call (extracted, extractor_error) and the
\* timer (timeout), and the .then makes one update of extracted_info, whose
\* error is ignored.  The loser of the race is still pending afterwards.
Settle(u, outcome, updateOk) ==
  /\ tasks[u] = "racing"
  /\ session' = IF updateOk
                THEN UpdateRow(session, writeBackPayload(outcome, u))
                ELSE session
  /\ tasks' = [tasks EXCEPT ![u] = IF outcome = "timeout" THEN "extractor_running"
                                                          ELSE "timer_armed"]
  /\ UNCHANGED <<s3, calls, uploads, last, ledger, workload, arg, ret, hist>>

\* mutant of Late: the loser of the race writes its own outcome too
LateWrites(u, pending) ==
  /\ tasks[u] = pending
  /\ session' = UpdateRow(session,
       writeBackPayload(IF pending = "timer_armed" THEN "timeout" ELSE "extracted", u))
  /\ tasks' = [tasks EXCEPT ![u] = "off"]
  /\ UNCHANGED <<s3, calls, uploads, last, ledger, workload, arg, ret, hist>>

\* the loser of the race finishes: Promise.race has settled already, so the
\* late resolution or rejection has no continuation
Late(u, pending) ==
  /\ tasks[u] = pending
  /\ tasks' = [tasks EXCEPT ![u] = "off"]
  /\ UNCHANGED <<session, s3, calls, uploads, last, ledger, workload, arg, ret, hist>>

\* textract.send returns or throws: first in the race, or after the timer
ExtractorReturns(u) ==
  /\ tasks[u] \in {"racing", "extractor_running"}
  /\ IF tasks[u] = "racing"
     THEN \E outcome \in workload.outcomes \ {"timeout"}, updateOk \in workload.dbOk :
            Settle(u, outcome, updateOk)
     ELSE Late(u, "extractor_running")

\* the 15000 ms timer fires: first in the race, or after the extractor
TimerFires(u) ==
  /\ tasks[u] \in {"racing", "timer_armed"}
  /\ IF tasks[u] = "racing"
     THEN /\ "timeout" \in workload.outcomes
          /\ \E updateOk \in workload.dbOk : Settle(u, "timeout", updateOk)
     ELSE Late(u, "timer_armed")

\* ---------------------------------------------------- action verify_face
\* Boolean(face?.EyesOpen?.Value) && (face?.Quality?.Brightness || 0) > 40
isLiveOf(eyesOpen, brightness) == eyesOpen /\ brightness > BrightnessFloor

\* (x || 0) / 100, in thousandths, for x a percentage
scoreOf(percent) == percent * 10

\* (compareResult.FaceMatches?.[0]?.Similarity || 0) / 100, in thousandths
similarityOf(bestSimilarity) ==
  IF bestSimilarity = NoMatch THEN 0 ELSE scoreOf(bestSimilarity)

\* mutant of verificationScoreOf: liveness weighs 0.5
verificationScoreHalfLive(isLive, livenessScore, similarity) ==
  (IF isLive THEN 500 ELSE 0) + (livenessScore * 3) \div 10 + (similarity * 3) \div 10

\* (isLive ? 0.4 : 0) + livenessScore * 0.3 + similarity * 0.3, in thousandths
verificationScoreOf(isLive, livenessScore, similarity) ==
  (IF isLive THEN 400 ELSE 0) + (livenessScore * 3) \div 10 + (similarity * 3) \div 10

\* mutant of isVerifiedOf: the threshold of the older handler, 0.75
isVerifiedOlder(isLive, similarity) == isLive /\ similarity >= 750

\* isLive && similarity >= 0.65
isVerifiedOf(isLive, similarity) == isLive /\ similarity >= PassSimilarity

\* mutant of verifiedAfterOf: every attempt counts, passed or not
verifiedAfterCounting(verifiedBefore, expected, isVerified) ==
  Min(verifiedBefore + 1, expected)

\* mutant of verifiedAfterOf: the increment is not capped at expected
verifiedAfterUncapped(verifiedBefore, expected, isVerified) ==
  IF isVerified THEN verifiedBefore + 1 ELSE verifiedBefore

\* let verifiedAfter = verifiedBefore; if (isVerified) verifiedAfter = min(verifiedBefore + 1, expected)
verifiedAfterOf(verifiedBefore, expected, isVerified) ==
  IF isVerified THEN Min(verifiedBefore + 1, expected) ELSE verifiedBefore

\* mutant of statusToSetOf: a passing guest always gives verified
statusIgnoringQuorum(isVerified, requiresAdditionalGuest) ==
  IF isVerified THEN "verified" ELSE "failed"

\* statusToSet: failed, partial_verified when this guest passed and more are
\* required, verified when this guest passed and none is
statusToSetOf(isVerified, requiresAdditionalGuest) ==
  IF isVerified /\ ~requiresAdditionalGuest THEN "verified"
  ELSE IF isVerified /\ requiresAdditionalGuest THEN "partial_verified"
  ELSE "failed"

\* mutant of selfieIndexOf: slots counted from zero
selfieIndexFromZero(verifiedBefore) == Min(verifiedBefore, MaxGuests)

\* Math.min(verifiedBefore + 1, 10)
selfieIndexOf(verifiedBefore) == Min(verifiedBefore + 1, MaxGuests)

\* mutant of hasDocument: the gate on the document pointer is absent
hasDocumentAlways(row) == TRUE

\* !session?.document_url is false
hasDocument(row) == row.document_url # NoUrl

\* request validation and the read of the session row
VFRequest(p, size, selectOk) ==
  /\ IF size = 0
     THEN /\ Finish(p, Resp("verify_face", 400))
     ELSE IF ~selectOk \/ ~session.exists
     THEN /\ Finish(p, Resp("verify_face", 404))
     ELSE IF ~hasDocument(session)
     THEN /\ Finish(p, Resp("verify_face", 400))
     ELSE IF tooSmall(size)
     THEN /\ Finish(p, Resp("verify_face", 400))
     ELSE /\ passes < MaxPasses
          /\ LET expected == clampInt(Whole(session.expected_guest_count), MinGuests, MaxGuests)
                 verifiedBefore == clampInt(Whole(session.verified_guest_count), 0, MaxGuests)
             IN  calls' = [calls EXCEPT ![p] =
                   [Idle EXCEPT !.pc = "vf_put",
                                !.size = size,
                                !.expected = expected,
                                !.verifiedBefore = verifiedBefore,
                                !.selfieIndex = selfieIndexOf(verifiedBefore),
                                !.document_url = session.document_url]]
          /\ last' = last
  /\ UNCHANGED <<session, s3, tasks, uploads, ledger, workload, arg, ret, hist>>

VFBegin(p) ==
  /\ CanBegin(p)
  /\ \E size \in workload.sizes, selectOk \in workload.dbOk : VFRequest(p, size, selectOk)

\* the selfie put, DetectFaces, the document get and CompareFaces; each
\* throws on failure and the handler's catch answers 500
FaceAnalysis(p, putOk, analysisOk, eyesOpen, brightness, confidence, bestSimilarity) ==
  /\ IF ~putOk
     THEN /\ s3' = s3
          /\ Finish(p, serverError("verify_face"))
     ELSE /\ s3' = PutObject(s3, selfieKeyOf(calls[p].selfieIndex), calls[p].size)
          /\ IF ~analysisOk \/ calls[p].document_url \notin DOMAIN s3
             THEN Finish(p, serverError("verify_face"))
             ELSE /\ calls' = [calls EXCEPT ![p] =
                       [@ EXCEPT !.pc = "vf_write",
                                 !.eyesOpen = eyesOpen,
                                 !.brightness = brightness,
                                 !.bestSimilarity = bestSimilarity,
                                 !.isLive = isLiveOf(eyesOpen, brightness),
                                 !.livenessScore = scoreOf(confidence),
                                 !.similarity = similarityOf(bestSimilarity)]]
                  /\ last' = last
  /\ UNCHANGED <<session, tasks, uploads, ledger, workload, arg, ret, hist>>

VFAnalyze(p) ==
  /\ calls[p].pc = "vf_put"
  /\ \E putOk \in workload.awsOk, analysisOk \in workload.awsOk, eyesOpen \in workload.eyes,
        brightness \in workload.brightness, confidence \in workload.confidences,
        bestSimilarity \in workload.similarities :
       FaceAnalysis(p, putOk, analysisOk, eyesOpen, brightness, confidence, bestSimilarity)

\* mutant of sideEffects: the older handler awaits both outside a try, and
\* a failing one throws into the handler's catch
sideEffectsUnguarded(resp, costOk, statsOk) ==
  IF costOk /\ statsOk THEN resp ELSE serverError("verify_face")

\* try { insert costs } catch { warn }  try { rpc stats } catch { warn }:
\* the response is the one decided before
sideEffects(resp, costOk, statsOk) == resp

\* the decision, the update of the row, the side effects and the response
VerifyWrite(p, updateOk, costOk, statsOk) ==
  /\ calls[p].pc = "vf_write"
  /\ LET c == calls[p]
         isVerified == isVerifiedOf(c.isLive, c.similarity)
         verifiedAfter == verifiedAfterOf(c.verifiedBefore, c.expected, isVerified)
         requiresAdditionalGuest == verifiedAfter < c.expected
         statusToSet == statusToSetOf(isVerified, requiresAdditionalGuest)
         overallVerified == isVerified /\ ~requiresAdditionalGuest
         written == updateOk /\ session.exists
     IN  /\ session' = IF updateOk
                       THEN UpdateRow(session,
                              [status |-> statusToSet,
                               current_step |-> "results",
                               selfie_url |-> selfieKeyOf(c.selfieIndex),
                               is_verified |-> Bool3(overallVerified),
                               verification_score |->
                                 verificationScoreOf(c.isLive, c.livenessScore, c.similarity),
                               liveness_score |-> c.livenessScore,
                               face_match_score |-> c.similarity,
                               expected_guest_count |-> c.expected,
                               verified_guest_count |-> verifiedAfter,
                               requires_additional_guest |-> requiresAdditionalGuest])
                       ELSE session
         /\ passes' = IF written /\ isVerified THEN passes + 1 ELSE passes
         /\ everVerified' = (everVerified \/ (written /\ statusToSet = "verified"))
         /\ IF updateOk
            THEN /\ ledger' = [costs |-> costOk, stats |-> statsOk]
                 /\ Finish(p, sideEffects(
                      [Resp("verify_face", 200) EXCEPT !.is_verified = overallVerified],
                      costOk, statsOk))
            ELSE /\ ledger' = ledger
                 /\ Finish(p, Resp("verify_face", 500))
  /\ UNCHANGED <<s3, tasks, uploads, workload, arg, ret, expStable>>

VFWrite(p) ==
  \E updateOk \in workload.dbOk, costOk \in workload.sideOk, statsOk \in workload.sideOk :
    VerifyWrite(p, updateOk, costOk, statsOk)

\* ------------------------------------------------------- specifications
Next ==
  \/ \E p \in Procs : Start(p)
  \/ \E p \in Procs : LogConsent(p)
  \/ \E p \in Procs : UGBegin(p)
  \/ \E p \in Procs : UGWrite(p)
  \/ \E p \in Procs : UploadDocument(p)
  \/ \E u \in 1..MaxUploads : ExtractorReturns(u)
  \/ \E u \in 1..MaxUploads : TimerFires(u)
  \/ \E p \in Procs : VFBegin(p)
  \/ \E p \in Procs : VFAnalyze(p)
  \/ \E p \in Procs : VFWrite(p)

\* invocations run one at a time; the quorum workload
Spec == Init /\ [][Next]_vars

\* invocations run one at a time; the guest workload
SpecGuest == InitGuest /\ [][Next]_vars

\* invocations run one at a time; the decision workload
SpecDecision == InitDecision /\ [][Next]_vars

\* invocations on the session overlap freely
SpecConc == InitConc /\ [][Next]_vars

\* invocations run one at a time; the extraction workload
SpecExtract == InitExtract /\ [][Next]_vars

\* invocations run one at a time; the race workload
SpecRace == InitRace /\ [][Next]_vars

\* invocations run one at a time; the adults workload
SpecAdults == InitAdults /\ [][Next]_vars

\* invocations run one at a time; the override workload
SpecOverride == InitOverride /\ [][Next]_vars

\* invocations run one at a time; the unknown-token workload
SpecUnknown == InitWith(UnknownTokenWorkload) /\ [][Next]_vars

\* invocations run one at a time; the fault workload
SpecFaults == InitFaults /\ [][Next]_vars

\* the extraction workload, where the timer of a dispatched extraction task
\* is not postponed forever: the event loop runs the setTimeout callback and
\* the .then continuation of the race (the extractor call may never return)
SpecExtractFair ==
  /\ InitExtract
  /\ [][Next]_vars
  /\ \A u \in 1..MaxUploads : WF_vars(TimerFires(u))

\* JavaScript truthiness of a stored text or pointer (null and the empty
\* string are both NoText) and of a stored step
Truthy(v) == v # NoText
TruthyStep(v) == v # NULL

\* ------------------------------------------------------ the retention job
\* deleteOldSessionsAndImages, for the session of the token once it is older
\* than 72 hours: the objects its two pointers name are deleted, then its
\* cost rows, then the row.  A failed object deletion is logged and the job
\* goes on; a failed row deletion leaves the row.

DeleteObjects(store, keys) == [k \in DOMAIN store \ keys |-> store[k]]

\* the keys cut from the two pointers (a pointer is kept here as the key it
\* points to)
imagesToDelete(row) ==
  (IF Truthy(row.document_url) THEN {row.document_url} ELSE {})
    \cup (IF Truthy(row.selfie_url) THEN {row.selfie_url} ELSE {})

deleteOldSessionsAndImages(deleteObjectOk, costOk, deleteOk) ==
  /\ session.exists
  /\ s3' = IF deleteObjectOk THEN DeleteObjects(s3, imagesToDelete(session)) ELSE s3
  /\ ledger' = IF costOk THEN [ledger EXCEPT !.costs = FALSE] ELSE ledger
  /\ session' = IF deleteOk THEN NoSession ELSE session
  /\ UNCHANGED <<calls, tasks, uploads, last, workload, hist, arg, ret>>

Cleanup ==
  \E deleteObjectOk \in workload.awsOk, costOk \in workload.dbOk, deleteOk \in workload.dbOk :
    deleteOldSessionsAndImages(deleteObjectOk, costOk, deleteOk)

\* the handler and the retention job
NextRetention ==
  \/ Next
  \/ Cleanup

\* guests of a party of two verify, and every service works
RetentionWorkload == [BaseWorkload EXCEPT !.similarities = { 65 }]

\* invocations run one at a time, and the retention job runs between them
SpecRetention == InitWith(RetentionWorkload) /\ [][NextRetention]_vars

\* ------------------------------------------------------ helper functions
\* The helper functions of the handler, each called on its own with an
\* argument drawn from a bounded set; the handler itself stays idle.

\* the handler's state while a helper function is called on its own
InitHelper(args) ==
  /\ session = NoSession
  /\ s3 = NoObjects
  /\ calls = [p \in Procs |-> Idle]
  /\ tasks = NoTasks
  /\ uploads = 0
  /\ last = NoResp
  /\ ledger = NoLedger
  /\ workload = BaseWorkload
  /\ passes = 0
  /\ expStable = TRUE
  /\ everVerified = FALSE
  /\ arg \in args
  /\ ret = NotCalled

\* the call of a helper function: its result is kept
Call(result) ==
  /\ ~ret.called
  /\ ret' = [called |-> TRUE, value |-> result]
  /\ UNCHANGED <<session, s3, calls, tasks, uploads, last, ledger, workload, hist, arg>>

\* mutant of inferStepFromSession: the document pointer is looked at before
\* the selfie pointer
inferStepDocumentFirst(row) ==
  IF ~row.exists THEN "welcome"
  ELSE IF TruthyStep(row.current_step) THEN row.current_step
  ELSE IF row.is_verified = "true" \/ row.verification_score # NoScore THEN "results"
  ELSE IF Truthy(row.document_url) THEN "selfie"
  ELSE IF Truthy(row.selfie_url) THEN "results"
  ELSE IF Truthy(row.guest_name) \/ Truthy(row.room_number) THEN "document"
  ELSE "welcome"

inferStepFromSession(row) ==
  IF ~row.exists THEN "welcome"
  ELSE IF TruthyStep(row.current_step) THEN row.current_step
  ELSE IF row.is_verified = "true" \/ row.verification_score # NoScore THEN "results"
  ELSE IF Truthy(row.selfie_url) THEN "results"
  ELSE IF Truthy(row.document_url) THEN "selfie"
  ELSE IF Truthy(row.guest_name) \/ Truthy(row.room_number) THEN "document"
  ELSE "welcome"

\* the rows step inference is called with: every combination of an explicit
\* step, a verified flag, a score, the two pointers and the guest fields
\* being present or absent, and no row at all
InferArgs ==
  { [fn |-> "inferStepFromSession", session |-> row] :
      row \in [exists : {TRUE},
               current_step : Steps \cup {NULL},
               is_verified : {NULL, "true", "false"},
               verification_score : {NoScore, 0, 700},
               selfie_url : {NoUrl, selfieKeyOf(1)},
               document_url : {NoUrl, documentKey},
               guest_name : {NoText, <<"A">>},
               room_number : {NoText, <<"X">>}] \cup {NoSession} }

InferStep ==
  /\ arg.fn = "inferStepFromSession"
  /\ Call(inferStepFromSession(arg.session))

SpecInfer == InitHelper(InferArgs) /\ [][InferStep]_vars

\* ------------------------------------------------------------ parseMrzTD3
\* the length of an MRZ line of a TD3 document
MrzLineLen == 44

IsWhite(c) == c \in {" ", "\n", "\r", "\t"}

\* .replace(/\r/g, "\n")
ReplaceCR(s) == [i \in 1..Len(s) |-> IF s[i] = "\r" THEN "\n" ELSE s[i]]

\* .split("\n"): the pieces between the line breaks, empty ones included
BreakAt(s, k) ==
  LET breaks == { i \in 1..Len(s) : s[i] = "\n" }
  IN  IF k = 0 THEN 0
      ELSE IF k > Cardinality(breaks) THEN Len(s) + 1
      ELSE CHOOSE i \in breaks : Cardinality({ j \in breaks : j < i }) = k - 1

SplitLines(s) ==
  [k \in 1..(Cardinality({ i \in 1..Len(s) : s[i] = "\n" }) + 1) |->
     IF BreakAt(s, k - 1) + 1 > BreakAt(s, k) - 1 THEN << >>
     ELSE SubSeq(s, BreakAt(s, k - 1) + 1, BreakAt(s, k) - 1)]

\* l.trim()
RECURSIVE TrimWhiteLeft(_)
TrimWhiteLeft(s) == IF s # << >> /\ IsWhite(Head(s)) THEN TrimWhiteLeft(Tail(s)) ELSE s

RECURSIVE TrimWhiteRight(_)
TrimWhiteRight(s) ==
  IF s # << >> /\ IsWhite(s[Len(s)]) THEN TrimWhiteRight(SubSeq(s, 1, Len(s) - 1)) ELSE s

TrimWhite(s) == TrimWhiteRight(TrimWhiteLeft(s))

\* .join("")
RECURSIVE JoinAll(_)
JoinAll(pieces) == IF pieces = << >> THEN << >> ELSE Head(pieces) \o JoinAll(Tail(pieces))

\* s.slice(from, to) for 0 <= from <= to
Slice(s, from, to) ==
  IF from >= Min(to, Len(s)) THEN << >> ELSE SubSeq(s, from + 1, Min(to, Len(s)))

\* s.padEnd(n, c)
PadEnd(s, n, c) == s \o [i \in 1..Max(n - Len(s), 0) |-> c]

\* the cleaned text: lines trimmed, empty lines dropped, joined without a
\* separator, whitespace removed, upper case
mrzClean(mrz) ==
  UpperAll(SelectSeq(
    JoinAll(SelectSeq([i \in 1..Len(SplitLines(ReplaceCR(mrz))) |->
                         TrimWhite(SplitLines(ReplaceCR(mrz))[i])],
                      LAMBDA l : l # << >>)),
    LAMBDA c : ~IsWhite(c)))

\* the two lines taken from the cleaned text
mrzLines(clean) ==
  IF \E i \in 1..Len(clean) : clean[i] = "\n"
  THEN SelectSeq(SplitLines(clean), LAMBDA l : l # << >>)
  ELSE IF Len(clean) >= 2 * MrzLineLen
  THEN <<Slice(clean, 0, MrzLineLen), Slice(clean, MrzLineLen, 2 * MrzLineLen)>>
  ELSE IF Len(clean) >= MrzLineLen
  THEN <<Slice(clean, 0, MrzLineLen), Slice(clean, MrzLineLen, 2 * MrzLineLen)>>
  ELSE << >>

\* mutant of mrzField: the filler is kept
mrzFieldWithFiller(l2, from, to) == TrimWhite(Slice(l2, from, to))

\* l2.slice(from, to).replace(/</g, "").trim() || null  (null is NoText)
mrzField(l2, from, to) ==
  TrimWhite(SelectSeq(Slice(l2, from, to), LAMBDA c : c # "<"))

NoMrz == [null |-> TRUE]

parseMrzTD3(mrz) ==
  LET lines == mrzLines(mrzClean(mrz))
  IN  IF Len(lines) < 2 THEN NoMrz
      ELSE LET l2 == PadEnd(lines[2], MrzLineLen, "<")
           IN  [null |-> FALSE,
                passport_number |-> mrzField(l2, 0, 9),
                nationality |-> mrzField(l2, 10, 13),
                sex |-> mrzField(l2, 20, 21),
                dob_yymmdd |-> mrzField(l2, 13, 19),
                exp_yymmdd |-> mrzField(l2, 21, 27),
                line1 |-> lines[1],
                line2 |-> lines[2]]

\* the texts parseMrzTD3 is called with
Filler(n) == [i \in 1..n |-> "<"]
MrzLine1 == PadEnd(<<"P", "<", "U", "T", "O", "E", "R", "I", "K", "S", "S", "O", "N", "<", "<", "A", "N", "N", "A", "<", "M", "A", "R", "I", "A">>, MrzLineLen, "<")

\* field values as encoded in line 2, each with the value it stands for
DocNumbers == { <<<<"L", "8", "9", "8", "9", "0", "2", "C", "3">>, <<"L", "8", "9", "8", "9", "0", "2", "C", "3">>>>, <<<<"X", "1">> \o Filler(7), <<"X", "1">>>>, <<Filler(9), NoText>> }
Nationalities == { <<<<"U", "T", "O">>, <<"U", "T", "O">>>>, <<<<"D">> \o Filler(2), <<"D">>>>, <<Filler(3), NoText>> }
BirthDates == { <<<<"7", "4", "0", "8", "1", "2">>, <<"7", "4", "0", "8", "1", "2">>>>, <<Filler(6), NoText>> }
Sexes == { <<<<"F">>, <<"F">>>>, <<Filler(1), NoText>> }
ExpiryDates == { <<<<"1", "2", "0", "4", "1", "5">>, <<"1", "2", "0", "4", "1", "5">>>>, <<Filler(6), NoText>> }
LineBreaks == { << >>, <<"\n">>, <<"\r", "\n">> }

\* line 2 of a TD3 document: document number, check digit, nationality,
\* date of birth, check digit, sex, expiry, check digit, optional data
MrzLine2(doc, nat, dob, sex, exp) ==
  PadEnd(doc \o <<"6">> \o nat \o dob \o <<"2">> \o sex \o exp \o <<"9">>, MrzLineLen, "<")

WellFormedArgs ==
  { [fn |-> "parseMrzTD3", kind |-> "td3",
     mrz |-> MrzLine1 \o br \o MrzLine2(doc[1], nat[1], dob[1], sex[1], exp[1]),
     passport_number |-> doc[2], nationality |-> nat[2], sex |-> sex[2],
     dob_yymmdd |-> dob[2], exp_yymmdd |-> exp[2]] :
      doc \in DocNumbers, nat \in Nationalities, dob \in BirthDates,
      sex \in Sexes, exp \in ExpiryDates, br \in LineBreaks }

\* texts whose lines are all shorter than an MRZ line
ShortArgs ==
  { [fn |-> "parseMrzTD3", kind |-> "short",
     mrz |-> Slice(MrzLine1, 0, a) \o br \o Slice(MrzLine1, 0, b),
     passport_number |-> NoText, nationality |-> NoText, sex |-> NoText,
     dob_yymmdd |-> NoText, exp_yymmdd |-> NoText] :
      a \in { 0, 10, 30, MrzLineLen - 1 }, b \in { 0, 10, 30, MrzLineLen - 1 }, br \in LineBreaks \ { << >> } }

\* texts of one MRZ line and nothing else
OneLineArgs ==
  { [fn |-> "parseMrzTD3", kind |-> "one_line",
     mrz |-> MrzLine1 \o br,
     passport_number |-> NoText, nationality |-> NoText, sex |-> NoText,
     dob_yymmdd |-> NoText, exp_yymmdd |-> NoText] : br \in LineBreaks }

MrzArgs == WellFormedArgs \cup ShortArgs \cup OneLineArgs

ParseMrz ==
  /\ arg.fn = "parseMrzTD3"
  /\ Call(parseMrzTD3(arg.mrz))

SpecMrz == InitHelper(MrzArgs) /\ [][ParseMrz]_vars

\* --------------------------------------------------- parseAnalyzeIdFields
\* raw: the detected value by normalized field type; a type that was not
\* detected, or was detected with an empty value, has no entry (NoText)

\* the field types read for each of the fields that MRZ can supply, in the
\* order of the || chain
AliasesOf ==
  [nationality |-> <<"nationality", "country">>,
   sex |-> <<"sex", "gender">>,
   date_of_birth |-> <<"date_of_birth", "dob">>,
   expiration_date |-> <<"expiration_date", "expiry_date", "expiry">>,
   document_number |-> <<"document_number", "passport_number", "id_number",
                         "identity_document_number", "personal_number">>]

MrzBackedFields == DOMAIN AliasesOf

AliasSet(f) == { AliasesOf[f][i] : i \in 1..Len(AliasesOf[f]) }

RawKeys == UNION { AliasSet(f) : f \in MrzBackedFields } \cup {"mrz_code", "mrz"}

\* a || b || ... over the entries of raw named by keys, null when none is set
RECURSIVE FirstOf(_, _)
FirstOf(raw, keys) ==
  IF keys = << >> THEN NoText
  ELSE IF raw[Head(keys)] # NoText THEN raw[Head(keys)]
  ELSE FirstOf(raw, Tail(keys))

\* mrz_parsed?.field: undefined when the parser returned null
mrzParsedField(mrz_parsed, field) == IF mrz_parsed.null THEN NoText ELSE mrz_parsed[field]

\* mutant of ocrOrMrz: the MRZ-derived value is preferred
mrzOrOcr(ocr, fromMrz) == OrText(fromMrz, ocr)

\* ocr || mrz_parsed?.field || null
ocrOrMrz(ocr, fromMrz) == OrText(ocr, fromMrz)

parseAnalyzeIdFields(raw) ==
  LET dob == FirstOf(raw, AliasesOf.date_of_birth)
      expiration_date == FirstOf(raw, AliasesOf.expiration_date)
      document_number == FirstOf(raw, AliasesOf.document_number)
      mrz_code == FirstOf(raw, <<"mrz_code", "mrz">>)
      sex == FirstOf(raw, AliasesOf.sex)
      nationality == FirstOf(raw, AliasesOf.nationality)
      mrz_parsed == IF mrz_code # NoText THEN parseMrzTD3(mrz_code) ELSE NoMrz
  IN  [document_number |-> ocrOrMrz(document_number, mrzParsedField(mrz_parsed, "passport_number")),
       date_of_birth |-> ocrOrMrz(dob, mrzParsedField(mrz_parsed, "dob_yymmdd")),
       expiration_date |-> ocrOrMrz(expiration_date, mrzParsedField(mrz_parsed, "exp_yymmdd")),
       nationality |-> ocrOrMrz(nationality, mrzParsedField(mrz_parsed, "nationality")),
       sex |-> ocrOrMrz(sex, mrzParsedField(mrz_parsed, "sex")),
       mrz_code |-> mrz_code]

\* the text detected for a field type
OcrValue(key) == <<"#", key>>

\* the MRZ texts detected, each with the values its line 2 encodes: none,
\* a full line 2, a line 2 without nationality and sex, a text too short
MrzChoices ==
  { [text |-> NoText, document_number |-> NoText, nationality |-> NoText,
     sex |-> NoText, date_of_birth |-> NoText, expiration_date |-> NoText],
    [text |-> MrzLine1 \o <<"\n">> \o MrzLine2(<<"L", "8", "9", "8", "9", "0", "2", "C", "3">>, <<"U", "T", "O">>, <<"7", "4", "0", "8", "1", "2">>, <<"F">>, <<"1", "2", "0", "4", "1", "5">>),
     document_number |-> <<"L", "8", "9", "8", "9", "0", "2", "C", "3">>, nationality |-> <<"U", "T", "O">>,
     sex |-> <<"F">>, date_of_birth |-> <<"7", "4", "0", "8", "1", "2">>, expiration_date |-> <<"1", "2", "0", "4", "1", "5">>],
    [text |-> MrzLine1 \o MrzLine2(<<"L", "8", "9", "8", "9", "0", "2", "C", "3">>, Filler(3), <<"7", "4", "0", "8", "1", "2">>, Filler(1), Filler(6)),
     document_number |-> <<"L", "8", "9", "8", "9", "0", "2", "C", "3">>, nationality |-> NoText,
     sex |-> NoText, date_of_birth |-> <<"7", "4", "0", "8", "1", "2">>, expiration_date |-> NoText],
    [text |-> Slice(MrzLine1, 0, 30), document_number |-> NoText, nationality |-> NoText,
     sex |-> NoText, date_of_birth |-> NoText, expiration_date |-> NoText] }

\* the detections the normalizer is called with: for one field every subset
\* of its field types, the other fields detected under their first type or
\* not at all, and each of the MRZ texts
AnalyzeArgs ==
  UNION { { [fn |-> "parseAnalyzeIdFields",
             mrz |-> m,
             raw |-> [k \in RawKeys |->
                        IF k = "mrz_code" THEN m.text
                        ELSE IF k = "mrz" THEN NoText
                        ELSE IF k \in AliasSet(f)
                        THEN IF k \in present THEN OcrValue(k) ELSE NoText
                        ELSE IF others /\ \E g \in MrzBackedFields : AliasesOf[g][1] = k
                        THEN OcrValue(k) ELSE NoText]] :
              present \in SUBSET AliasSet(f), others \in BOOLEAN, m \in MrzChoices } :
          f \in MrzBackedFields }

ParseAnalyzeId ==
  /\ arg.fn = "parseAnalyzeIdFields"
  /\ Call(parseAnalyzeIdFields(arg.raw))

SpecAnalyze == InitHelper(AnalyzeArgs) /\ [][ParseAnalyzeId]_vars

\* ------------------------------------------------- the verification score
\* the answers of the Face Analyzer the score is computed from: eyes open or
\* not, a brightness on either side of the floor, every whole confidence and
\* every whole similarity of the best match, or no match
ScoreArgs ==
  [fn : {"verificationScore"},
   eyesOpen : BOOLEAN,
   brightness : {BrightnessFloor, BrightnessFloor + 1},
   confidence : 0..100,
   bestSimilarity : 0..100 \cup {NoMatch}]

ComputeScore ==
  /\ arg.fn = "verificationScore"
  /\ LET isLive == isLiveOf(arg.eyesOpen, arg.brightness)
     IN  Call([isLive |-> isLive,
               verificationScore |->
                 verificationScoreOf(isLive, scoreOf(arg.confidence),
                                     similarityOf(arg.bestSimilarity))])

SpecScore == InitHelper(ScoreArgs) /\ [][ComputeScore]_vars

TypeOK ==
  /\ session.exists =>
       /\ session.status \in Statuses
       /\ session.current_step \in Steps
       /\ session.expected_guest_count \in Int
       /\ session.verified_guest_count \in Int
  /\ uploads \in 0..MaxUploads
  /\ passes \in 0..(MaxPasses + NumProcs)

\* ----------------------------------------------------------------- claims
Quiescent == \A p \in Procs : calls[p].pc = "idle"

\* C1: the stored counters always satisfy
\* 0 <= verified_guest_count <= expected_guest_count <= 10 and
\* expected_guest_count >= 1.
C1_CountersInRange ==
  session.exists =>
    /\ 0 <= session.verified_guest_count
    /\ session.verified_guest_count <= session.expected_guest_count
    /\ session.expected_guest_count <= 10
    /\ session.expected_guest_count >= 1

\* C2: the stored requires_additional_guest flag equals
\* (verified_guest_count < expected_guest_count) after every quorum mutation
\* run one at a time.
C2_FlagMatchesCounters ==
  session.exists =>
    session.requires_additional_guest =
      (session.verified_guest_count < session.expected_guest_count)

\* C3: no operation run one at a time stores a verified_guest_count lower
\* than the one stored before it.
C3_VerifiedNeverDecreases ==
  [][session.exists /\ session'.exists =>
       session'.verified_guest_count >= session.verified_guest_count]_vars

\* C4: is_verified = true implies status = verified and
\* requires_additional_guest = false with verified = expected, in every
\* reachable state.
C4_VerifiedFlagOnlyWhenVerified ==
  session.exists /\ session.is_verified = "true" =>
    /\ session.status = "verified"
    /\ session.requires_additional_guest = FALSE
    /\ session.verified_guest_count = session.expected_guest_count

\* C5: once status is verified no operation changes status or is_verified.
C5_VerifiedIsTerminal ==
  [][session.exists /\ session.status = "verified" =>
       /\ session'.status = "verified"
       /\ session'.is_verified = session.is_verified]_vars

\* C6: while expected_guest_count = N stays fixed and verify_face calls run
\* one at a time, after k passing calls verified_guest_count = min(k, N),
\* and status has been verified exactly when k >= N.
C6_VerifiedAtNthPass ==
  session.exists /\ expStable =>
    /\ session.verified_guest_count = Min(passes, session.expected_guest_count)
    /\ everVerified <=> passes >= session.expected_guest_count

\* C6 witness: N = 2, a third passing selfie left the count at 2.
C6_Witness ==
  /\ session.exists /\ expStable
  /\ session.expected_guest_count = 2
  /\ passes = 3
  /\ session.verified_guest_count = 2
  /\ session.status = "verified"

\* C7: when verify_face calls overlap, no increment is lost: once all calls
\* have returned, verified_guest_count = min(number of passing calls, expected).
C7_NoLostIncrement ==
  session.exists /\ expStable /\ Quiescent =>
    session.verified_guest_count = Min(passes, session.expected_guest_count)

\* a name and reference the directory holds, by its normalised columns
InDirectory(guest_name, reference) ==
  \E r \in booking_email_index :
    /\ r.guest_name_norm = normalizeGuestName(guest_name)
    /\ normalizeReservationNumber(reference)
         \in {r.confirmation_number_norm, r.source_reservation_id_norm}

\* C8: the stored guest_name and reservation reference are both unset or a
\* pair the Reservation Directory holds.
C8_GuestPairValidated ==
  session.exists =>
    \/ session.guest_name = NoText /\ session.room_number = NoText
    \/ InDirectory(session.guest_name, session.room_number)

\* C9: update_guest with a pair the directory does not hold is rejected (403,
\* never on its way to the write) and leaves the session row unchanged.
C9_RejectedUpdateGuestChangesNothing ==
  [][/\ \A p \in Procs : calls'[p].pc = "ug_write" =>
           InDirectory(calls'[p].guest_name, calls'[p].bookingValue)
     /\ (\E p \in Procs : UGBegin(p)) /\ last' = Resp("update_guest", 403) =>
           session' = session]_vars

\* C9 witness: a session with a saved guest on which a later update_guest
\* was answered 403.
C9_Witness ==
  /\ session.exists
  /\ session.status = "guest_info_saved"
  /\ last = Resp("update_guest", 403)

\* The claims' pass criterion on what the Face Analyzer answered for the
\* selfie of call c: eyes open, brightness above 40, and a best match of at
\* least 65 percent.
GuestPasses(c) ==
  /\ c.eyesOpen
  /\ c.brightness > 40
  /\ c.bestSimilarity # NoMatch
  /\ c.bestSimilarity >= 65

\* C10: after a verify_face that completes, status is verified if this guest
\* passed and the stored verified count is not below the expected one,
\* partial_verified if the guest passed and more guests are required, failed
\* otherwise; with expected 2 and none verified a pass gives count 1,
\* requires_additional_guest, partial_verified and is_verified = false.
C10_StatusAfterVerifyFace ==
  [][\A p \in Procs :
       /\ calls[p].pc = "vf_write" /\ calls'[p].pc = "idle"
       /\ last'.code = 200 /\ session.exists
       =>
       /\ session'.status =
            IF GuestPasses(calls[p])
               /\ ~(session'.verified_guest_count < session'.expected_guest_count)
            THEN "verified"
            ELSE IF GuestPasses(calls[p]) THEN "partial_verified" ELSE "failed"
       /\ GuestPasses(calls[p]) /\ session.expected_guest_count = 2
            /\ session.verified_guest_count = 0
          => /\ session'.verified_guest_count = 1
             /\ session'.requires_additional_guest = TRUE
             /\ session'.status = "partial_verified"
             /\ session'.is_verified = "false"]_vars

\* C10 witness: the state after the first passing selfie of two guests.
C10_Witness ==
  /\ session.exists
  /\ last = Resp("verify_face", 200)
  /\ session.expected_guest_count = 2
  /\ session.verified_guest_count = 1
  /\ session.status = "partial_verified"
  /\ session.is_verified = "false"

\* C11: a verify_face that completes passes the guest (status verified or
\* partial_verified) exactly when the selfie is live (eyes open and brightness
\* above 40) and the similarity, the best match / 100 or 0 without a match,
\* is at least 0.65; with expected_guest_count 1, a live selfie and similarity
\* 0.70 the session becomes verified with is_verified true; a selfie that is
\* not live gives failed whatever its similarity.
C11_PassDecision ==
  [][\A p \in Procs :
       /\ calls[p].pc = "vf_write" /\ calls'[p].pc = "idle"
       /\ last'.code = 200 /\ session.exists
       =>
       LET c == calls[p]
           is_live == c.eyesOpen /\ c.brightness > 40
           similarity == IF c.bestSimilarity = NoMatch THEN 0 ELSE c.bestSimilarity * 10
       IN  /\ session'.face_match_score = similarity
           /\ session'.status \in {"verified", "partial_verified"}
                <=> (is_live /\ similarity >= 650)
           /\ session.expected_guest_count = 1 /\ is_live /\ similarity = 700
                => /\ session'.is_verified = "true"
                   /\ session'.status = "verified"
                   /\ last'.is_verified
           /\ ~is_live => session'.status = "failed"]_vars

\* C11 witness: scenario A has happened: one expected guest, similarity 0.70,
\* the session verified.
C11_Witness ==
  /\ session.exists
  /\ last = [Resp("verify_face", 200) EXCEPT !.is_verified = TRUE]
  /\ session.expected_guest_count = 1
  /\ session.face_match_score = 700
  /\ session.status = "verified"
  /\ session.is_verified = "true"

\* C12: verify_face on a session without a document pointer answers 400,
\* stores no selfie and leaves the session as it was; so a session without a
\* document pointer never has status verified, partial_verified or failed, a
\* non-zero verified_guest_count, a selfie, or a verify_face call past the gate.
C12_GatedOnDocument ==
  /\ [](session.exists /\ session.document_url = NoUrl
          => /\ session.status \notin {"verified", "partial_verified", "failed"}
             /\ session.verified_guest_count = 0
             /\ session.selfie_url = NoUrl
             /\ DOMAIN s3 \subseteq {documentKey}
             /\ \A p \in Procs : calls[p].pc \notin {"vf_put", "vf_write"})
  /\ [][\A p \in Procs, size \in workload.sizes :
         /\ session.exists /\ session.document_url = NoUrl
         /\ size # 0 /\ CanBegin(p) /\ VFRequest(p, size, TRUE)
         => /\ last' = Resp("verify_face", 400)
            /\ session' = session
            /\ s3' = s3]_vars

\* C12 witness: a verify_face was refused on a session without a document.
C12_Witness ==
  /\ session.exists
  /\ session.document_url = NoUrl
  /\ last = Resp("verify_face", 400)

\* C13: an accepted upload_document answers success with the extraction
\* reported as pending while the extraction task is still running, and the
\* task that later settles (extracted, extractor error or timeout) changes
\* nothing but extracted_info: the response stays as it was, and a failure
\* is stored as ok = false.
C13_UploadAnswersBeforeExtraction ==
  /\ [][\A p \in Procs, size \in workload.sizes, guest \in workload.uploadGuests :
         /\ size >= 1000 /\ CanBegin(p) /\ session.exists
         /\ UploadRequest(p, size, guest, TRUE, TRUE)
         => /\ last'.op = "upload_document" /\ last'.code = 200
            /\ last'.extracted_text = "pending"
            /\ session'.extracted_info.textract_ok = NULL
            /\ tasks'[uploads'] = "racing"]_vars
  /\ [][\A u \in 1..MaxUploads, outcome \in workload.outcomes, updateOk \in workload.dbOk :
         Settle(u, outcome, updateOk) /\ session.exists
         => /\ last' = last
            /\ \A f \in DOMAIN session \ {"extracted_info"} : session'[f] = session[f]
            /\ updateOk =>
                 session'.extracted_info.textract_ok =
                   (IF outcome = "extracted" THEN "true" ELSE "false")]_vars

\* C13 witness: the upload was answered with success and pending, and the
\* extraction has failed since.
C13_Witness ==
  /\ session.exists
  /\ last = [op |-> "upload_document", code |-> 200, is_verified |-> FALSE,
             extracted_text |-> "pending"]
  /\ session.extracted_info.textract_ok = "false"

\* C14: whenever extracted_info is pending after an accepted upload, its
\* textract_ok eventually becomes true or false.
C14_ExtractionTerminates ==
  (session.exists /\ session.extracted_info.textract_ok = NULL)
    ~> (session.exists /\ session.extracted_info.textract_ok \in {"true", "false"})

\* C15: a session with a document pointer whose extracted_info is pending
\* has an extraction task in flight.
C15_PendingOnlyWhileInFlight ==
  session.exists /\ session.document_url # NoUrl
    /\ session.extracted_info.textract_ok = NULL
  => \E u \in 1..MaxUploads : tasks[u] = "racing"

\* C16: once textract_ok is true or false, extracted_info is not written
\* again unless an upload resets it to pending.
C16_OutcomeWrittenOnce ==
  [][session.exists /\ session.extracted_info.textract_ok \in {"true", "false"}
     => \/ session'.extracted_info = session.extracted_info
        \/ session'.extracted_info.textract_ok = NULL]_vars

\* the order of the steps: welcome < document < selfie < results
StepRank(step) ==
  CASE step = "welcome" -> 0
    [] step = "document" -> 1
    [] step = "selfie" -> 2
    [] step = "results" -> 3

\* C17: a stored document pointer implies current_step selfie or results,
\* and a stored selfie pointer implies current_step results.
C17_StepMatchesArtifacts ==
  session.exists =>
    /\ session.document_url # NoUrl => session.current_step \in {"selfie", "results"}
    /\ session.selfie_url # NoUrl => session.current_step = "results"

\* C18: no step of the program moves current_step backward.
C18_StepNeverMovesBack ==
  [][session.exists /\ session'.exists
     => StepRank(session'.current_step) >= StepRank(session.current_step)]_vars

\* C19: no object shorter than 1000 bytes is ever stored, and an
\* upload_document or a verify_face whose image is shorter than 1000 bytes
\* answers 400 and changes neither the session, nor the Object Store, nor
\* the extraction tasks.
C19_ShortImageRejected ==
  /\ [](\A k \in DOMAIN s3 : s3[k] >= 1000)
  /\ [][\A p \in Procs, size \in workload.sizes, guest \in workload.uploadGuests,
           putOk \in workload.awsOk, updateOk \in workload.dbOk :
         /\ size < 1000 /\ CanBegin(p)
         /\ UploadRequest(p, size, guest, putOk, updateOk)
         => /\ last' = Resp("upload_document", 400)
            /\ session' = session /\ s3' = s3
            /\ tasks' = tasks /\ uploads' = uploads]_vars
  /\ [][\A p \in Procs, size \in workload.sizes :
         /\ size < 1000 /\ CanBegin(p) /\ session.exists
         /\ VFRequest(p, size, TRUE)
         => /\ last' = Resp("verify_face", 400)
            /\ session' = session /\ s3' = s3
            /\ calls'[p].pc = "idle"]_vars

\* C19 witness: a short upload was refused on a session that has a document,
\* which stays as it was.
C19_Witness ==
  /\ session.exists
  /\ session.status = "document_uploaded"
  /\ last = Resp("upload_document", 400)

\* C20: when the selfie put, the attribute detection, the document get or
\* the comparison fails, verify_face answers 500 and the session row is what
\* it was before the call.
C20_AnalysisFailureChangesNothing ==
  [][\A p \in Procs, putOk \in workload.awsOk, analysisOk \in workload.awsOk,
        eyesOpen \in workload.eyes, brightness \in workload.brightness,
        confidence \in workload.confidences, bestSimilarity \in workload.similarities :
       /\ calls[p].pc = "vf_put" /\ (~putOk \/ ~analysisOk)
       /\ FaceAnalysis(p, putOk, analysisOk, eyesOpen, brightness, confidence, bestSimilarity)
       => /\ last' = Resp("verify_face", 500)
          /\ session' = session
          /\ calls'[p].pc = "idle"]_vars

\* C20 witness: a verify_face failed in the analysis after a guest had been
\* verified, and the verified session stands.
C20_Witness ==
  /\ session.exists
  /\ session.status = "verified"
  /\ session.verified_guest_count = 1
  /\ last = Resp("verify_face", 500)

\* C21: a verify_face whose row update succeeded answers 200 with the
\* decision and stores the decision (status, is_verified, scores, counters),
\* whether the cost rows and the stats increment were recorded or failed.
C21_SideEffectFailureIgnored ==
  [][\A p \in Procs, costOk \in workload.sideOk, statsOk \in workload.sideOk :
       /\ session.exists /\ VerifyWrite(p, TRUE, costOk, statsOk)
       =>
       LET c == calls[p]
           quorum == session'.verified_guest_count >= session'.expected_guest_count
       IN  /\ last' = [Resp("verify_face", 200) EXCEPT
                         !.is_verified = (GuestPasses(c) /\ quorum)]
           /\ session'.status = IF ~GuestPasses(c) THEN "failed"
                                ELSE IF quorum THEN "verified" ELSE "partial_verified"
           /\ session'.is_verified = IF GuestPasses(c) /\ quorum THEN "true" ELSE "false"
           /\ session'.face_match_score = c.bestSimilarity * 10
           /\ session'.liveness_score = c.livenessScore
           /\ session'.expected_guest_count = c.expected
           /\ session'.verified_guest_count =
                IF GuestPasses(c) /\ c.verifiedBefore + 1 <= c.expected
                THEN c.verifiedBefore + 1
                ELSE IF GuestPasses(c) THEN c.expected ELSE c.verifiedBefore]_vars

\* C21 witness: a guest was verified while neither side effect was recorded.
C21_Witness ==
  /\ session.exists
  /\ session.status = "verified"
  /\ last = [Resp("verify_face", 200) EXCEPT !.is_verified = TRUE]
  /\ ledger = [costs |-> FALSE, stats |-> FALSE]

\* C22: once consent has been logged on a session, consent_given,
\* consent_time and consent_locale keep their values.
C22_ConsentSetOnce ==
  [][session.exists /\ session.consent_given # NULL
     => /\ session'.consent_given = session.consent_given
        /\ session'.consent_time = session.consent_time
        /\ session'.consent_locale = session.consent_locale]_vars

\* C23: a verify_face that stores its decision sets verified_guest_count to
\* min(previous + 1, expected_guest_count) when the guest passed, which is
\* not above expected_guest_count, and stores both counters as they were
\* when the guest failed.
C23_CounterEffect ==
  [][\A p \in Procs, costOk \in workload.sideOk, statsOk \in workload.sideOk :
       /\ session.exists /\ VerifyWrite(p, TRUE, costOk, statsOk)
       =>
       IF GuestPasses(calls[p])
       THEN /\ session'.verified_guest_count =
                 IF session.verified_guest_count + 1 <= session.expected_guest_count
                 THEN session.verified_guest_count + 1
                 ELSE session.expected_guest_count
            /\ session'.verified_guest_count <= session'.expected_guest_count
       ELSE /\ session'.verified_guest_count = session.verified_guest_count
            /\ session'.expected_guest_count = session.expected_guest_count]_vars

\* C23 witness: a second guest passed on a session that expects one guest,
\* and the count stayed at one.
C23_Witness ==
  /\ session.exists
  /\ passes = 2
  /\ session.expected_guest_count = 1
  /\ session.verified_guest_count = 1

\* a JS value is a finite number
IsNumber(v) == v.t = "num"

\* the whole part of a finite number, limited to 1..10
Limited(v) == IF v.v < 10 THEN 1 ELSE IF v.v > 100 THEN 10 ELSE v.v \div 10

\* C24: an accepted update_guest stores an expected_guest_count in 1..10;
\* without an override it is 1 for an adults value that is missing, not a
\* number or below 1, 10 for one above 10, and the (whole) value otherwise.
C24_ExpectedFromAdultsInRange ==
  /\ [][\A p \in Procs, guest_name \in workload.names, booking_ref \in workload.refs,
           room_number \in workload.rooms, selectOk \in workload.dbOk,
           adults \in workload.adults :
         /\ CanBegin(p) /\ calls'[p].pc = "ug_write"
         /\ GuestRequest(p, guest_name, booking_ref, room_number, Null, TRUE, selectOk, adults)
         => calls'[p].expectedToSet =
              IF ~IsNumber(adults) \/ adults.v < 10 THEN 1
              ELSE IF adults.v > 100 THEN 10
              ELSE adults.v \div 10]_vars
  /\ [][\A p \in Procs :
         session.exists /\ GuestWrite(p, TRUE)
         => /\ session'.expected_guest_count = calls[p].expectedToSet
            /\ session'.expected_guest_count \in 1..10]_vars

\* C24 witness: update_guest was accepted for a reservation of 11 adults,
\* stored as 10 (no override is supplied in this workload).
C24_Witness ==
  /\ session.exists
  /\ session.status = "guest_info_saved"
  /\ session.expected_guest_count = 10
  /\ workload.overrides = { Null }
  /\ \E r \in booking_email_index : r.adults = Whole(11)

\* C25: in an accepted update_guest a numeric override, truncated and
\* limited to 1..10, is stored whatever the reservation's adults; without
\* one the limited adults value of the matched reservation is stored.
C25_OverrideTakesPrecedence ==
  /\ [][\A p \in Procs, guest_name \in workload.names, booking_ref \in workload.refs,
           room_number \in workload.rooms, expected_guest_count \in workload.overrides,
           selectOk \in workload.dbOk, adults \in workload.adults :
         /\ CanBegin(p) /\ calls'[p].pc = "ug_write"
         /\ GuestRequest(p, guest_name, booking_ref, room_number, expected_guest_count,
                         TRUE, selectOk, adults)
         => calls'[p].expectedToSet =
              IF IsNumber(expected_guest_count) THEN Limited(expected_guest_count)
              ELSE IF IsNumber(adults) THEN Limited(adults) ELSE 1]_vars
  /\ [][\A p \in Procs :
         session.exists /\ GuestWrite(p, TRUE)
         => session'.expected_guest_count = calls[p].expectedToSet]_vars

\* C25 witness: update_guest was accepted with the override 2.5 for a
\* reservation of three adults, and 2 is stored.
C25_Witness ==
  /\ session.exists
  /\ session.status = "guest_info_saved"
  /\ session.expected_guest_count = 2
  /\ \A r \in booking_email_index : r.adults = Whole(3)

\* C26: a selfie is only ever put under a slot index in
\* 1..expected_guest_count of the session.
C26_SelfieSlotWithinExpected ==
  [][\A i \in 1..MaxGuests :
       selfieKeyOf(i) \in DOMAIN s3' /\ selfieKeyOf(i) \notin DOMAIN s3 /\ session.exists
       => i <= session.expected_guest_count]_vars

C28_FirstFinisherDecides ==
  /\ [][\A u \in 1..MaxUploads :
         session.exists /\ Settle(u, "timeout", TRUE)
         => /\ session'.extracted_info.textract_ok = "false"
            /\ session'.extracted_info.textract_error = "timeout"
            /\ tasks'[u] = "extractor_running"]_vars
  /\ [][\A u \in 1..MaxUploads :
         \/ tasks[u] = "extractor_running" /\ ExtractorReturns(u)
         \/ tasks[u] = "timer_armed" /\ TimerFires(u)
         => session' = session]_vars

\* C28 witness: the timeout was stored as the failure, and the extractor
\* call has returned since.
C28_Witness ==
  /\ session.exists
  /\ uploads = 1
  /\ tasks[1] = "off"
  /\ session.extracted_info.textract_ok = "false"
  /\ session.extracted_info.textract_error = "timeout"

\* C29: after two uploads, once no extraction task is still racing, the
\* outcome in extracted_info is that of the document uploaded last.
C29_LatestDocumentWins ==
  /\ session.exists
  /\ uploads = 2
  /\ \A u \in 1..uploads : tasks[u] # "racing"
  /\ session.extracted_info.textract_ok \in {"true", "false"}
  => session.extracted_info.upload = uploads

\* C30: the write-back of an extraction task changes no field of the row
\* other than extracted_info, whatever update_guest and verify_face wrote
\* since the upload; and the writes of verify_face and update_guest leave
\* extracted_info as it was.
C30_WriteBackTouchesOnlyExtractedInfo ==
  /\ [][\A u \in 1..MaxUploads :
         tasks[u] = "racing" /\ tasks'[u] # "racing"
         => \A f \in DOMAIN session \ {"extracted_info"} : session'[f] = session[f]]_vars
  /\ [][\A p \in Procs :
         /\ session.exists
         /\ calls[p].pc \in {"vf_write", "ug_write"}
         /\ calls'[p].pc = "idle"
         => session'.extracted_info = session.extracted_info]_vars

\* C30 witness: a verification result and an extraction outcome stand side
\* by side in the row of a session with one upload.
C30_Witness ==
  /\ session.exists
  /\ uploads = 1
  /\ tasks[1] # "racing"
  /\ session.extracted_info.textract_ok = "true"
  /\ session.selfie_url # NoUrl
  /\ session.current_step = "results"
  /\ session.verified_guest_count > 0

\* C31: an accepted upload_document whose request supplies no guest_name
\* and no room_number changes only document_url, current_step, status and
\* extracted_info of the row.
C31_UploadTouchesOnlyDocumentFields ==
  [][\A p \in Procs :
       /\ session.exists
       /\ UploadRequest(p, MinImageBytes, <<NoText, NoText>>, TRUE, TRUE)
       => \A f \in DOMAIN session \
                 {"document_url", "current_step", "status", "extracted_info"} :
            session'[f] = session[f]]_vars

\* C32: step inference returns one of the four steps, and the one the
\* priority order gives: the explicit step, else results for a true verified
\* flag or a score, else results for a selfie pointer, else selfie for a
\* document pointer, else document for a guest name or reference, else
\* welcome.
C32_StepInferencePriority ==
  (arg.fn = "inferStepFromSession" /\ ret.called /\ arg.session.exists)
  => LET row == arg.session
         explicit == row.current_step \in Steps
         scored == row.is_verified = "true" \/ row.verification_score \in {0, 700}
         selfie == row.selfie_url = selfieKeyOf(1)
         document == row.document_url = documentKey
         guest == row.guest_name = <<"A">> \/ row.room_number = <<"X">>
     IN  /\ ret.value \in Steps
         /\ explicit => ret.value = row.current_step
         /\ ~explicit /\ scored => ret.value = "results"
         /\ ~explicit /\ ~scored /\ selfie => ret.value = "results"
         /\ ~explicit /\ ~scored /\ ~selfie /\ document => ret.value = "selfie"
         /\ ~explicit /\ ~scored /\ ~selfie /\ ~document /\ guest => ret.value = "document"
         /\ ~explicit /\ ~scored /\ ~selfie /\ ~document /\ ~guest => ret.value = "welcome"

\* C32 witness: no explicit step, no flag, no score, both pointers present
\* and the inference answered.
C32_Witness ==
  /\ arg.fn = "inferStepFromSession"
  /\ ret.called
  /\ arg.session.exists
  /\ arg.session.current_step = NULL
  /\ arg.session.is_verified = "false"
  /\ arg.session.verification_score = NoScore
  /\ arg.session.selfie_url # NoUrl
  /\ arg.session.document_url # NoUrl

\* C33: for a text whose lines are all shorter than 44 characters, and for
\* a text of one 44-character line and nothing else, parseMrzTD3 returns
\* null.
C33_NoTwoLinesGivesNull ==
  (arg.fn = "parseMrzTD3" /\ ret.called /\ arg.kind \in {"short", "one_line"})
  => ret.value.null

\* C34: for two 44-character lines, with or without a line break between
\* them, parseMrzTD3 returns the document number, nationality, date of
\* birth, sex and expiry encoded in line 2, without filler, and null for a
\* field of filler only.
C34_MrzRoundTrip ==
  (arg.fn = "parseMrzTD3" /\ ret.called /\ arg.kind = "td3")
  => /\ ~ret.value.null
     /\ ret.value.passport_number = arg.passport_number
     /\ ret.value.nationality = arg.nationality
     /\ ret.value.dob_yymmdd = arg.dob_yymmdd
     /\ ret.value.sex = arg.sex
     /\ ret.value.exp_yymmdd = arg.exp_yymmdd

\* C34 witness: two lines given without a line break were parsed, the
\* document number shorter than its field and the nationality filler only.
C34_Witness ==
  /\ arg.fn = "parseMrzTD3"
  /\ ret.called
  /\ arg.kind = "td3"
  /\ Len(arg.mrz) = 2 * MrzLineLen
  /\ Len(arg.passport_number) = 2
  /\ arg.nationality = NoText
  /\ arg.sex # NoText

\* the field types of a field that were detected, in the alias order
Detected(raw, field) == SelectSeq(AliasesOf[field], LAMBDA k : raw[k] # NoText)

\* C35: each of nationality, sex, document_number, date_of_birth and
\* expiration_date is the value detected under the first of its field types
\* that was detected, and the value from the MRZ only when none of them was.
C35_OcrWinsOverMrz ==
  (arg.fn = "parseAnalyzeIdFields" /\ ret.called)
  => \A field \in MrzBackedFields :
       IF Detected(arg.raw, field) # << >>
       THEN ret.value[field] = OcrValue(Head(Detected(arg.raw, field)))
       ELSE ret.value[field] = arg.mrz[field]

\* C35 witness: nationality was detected under its second field type only,
\* the MRZ encodes another nationality, and no document number was detected
\* while the MRZ encodes one.
C35_Witness ==
  /\ arg.fn = "parseAnalyzeIdFields"
  /\ ret.called
  /\ arg.raw["nationality"] = NoText
  /\ arg.raw["country"] # NoText
  /\ arg.mrz.nationality # NoText
  /\ Detected(arg.raw, "document_number") = << >>
  /\ arg.mrz.document_number # NoText

\* C36: in thousandths, the verification score is 400 for a live selfie
\* plus 3 per point of confidence plus 3 per point of similarity; it lies in
\* 0..1000, and in 0..600 for a selfie that is not live.
C36_ScoreFormula ==
  (arg.fn = "verificationScore" /\ ret.called)
  => LET live == arg.eyesOpen /\ arg.brightness > 40
         matched == IF arg.bestSimilarity = NoMatch THEN 0 ELSE arg.bestSimilarity
         score == ret.value.verificationScore
     IN  /\ ret.value.isLive = live
         /\ score = (IF live THEN 400 ELSE 0) + 3 * arg.confidence + 3 * matched
         /\ score \in 0..1000
         /\ ~live => score <= 600

\* C36 witness: the highest score of a selfie that is not live was computed.
C36_Witness ==
  /\ arg.fn = "verificationScore"
  /\ ret.called
  /\ arg.confidence = 100
  /\ arg.bestSimilarity = 100
  /\ ~arg.eyesOpen
  /\ ret.value.verificationScore = 600

\* C37: when the retention job removes the row of the session while no
\* request is in progress, no object of the session is left in the Object
\* Store.
C37_RetentionDeletesEveryImage ==
  [][(session.exists /\ ~session'.exists /\ \A p \in Procs : calls[p].pc = "idle")
     => s3' = NoObjects]_vars

\* C38: while the token has no row, a request other than start creates no
\* row, stores no object, dispatches no extraction task and is not answered
\* with success.
C38_UnknownTokenHasNoEffect ==
  [][(~session.exists /\ ~\E p \in Procs : Start(p))
     => /\ ~session'.exists
        /\ s3' = s3
        /\ tasks' = tasks
        /\ last' # last => last'.code # 200]_vars

====
